---- MODULE Spec2Model ----
(***************************************************************************)
(* Earring-Wearing-Agent: the earring-pair segmentation of get_earring.py  *)
(* (flood fill, contour extraction, hole filling, cutout extraction,       *)
(* left/right labelling) and the anchor geometry of compute_points.py.     *)
(*                                                                         *)
(* Conventions.  An array index is <<x, y>> with x the row and y the       *)
(* column, 0-based, as get_earring.py names them.  A colour is <<r, g, b>>  *)
(* and an RGBA pixel <<r, g, b, a>>; TLA+ tuples are 1-based, so the       *)
(* "first channel" pixel[0] of the code is c[1] here.                      *)
(***************************************************************************)
EXTENDS Integers, Sequences, FiniteSets, TLC

VARIABLES
    pc,                      \* position of the operation under study
    jewel_nobg_image_array,  \* the RGB image array (rows x cols of colours)
    start_pixel,             \* seed of the current flood fill, or None
    stack,                   \* flood_fill's work list
    visited_pixels,          \* flood_fill's visited set / the cluster
    contour_pixels,          \* result of get_contour
    filled_mask,             \* result of fill_contour
    masked_image,            \* extract_the_other's image without the first earring
    files,                   \* the image files on disk, by path
    result,                  \* value returned / exception raised
    ear_box,                 \* adjust_crop_area's arguments x, y, w, h
    min_size,                \* adjust_crop_area's argument min_size
    crop_area,               \* adjust_crop_area's return value
    results,                 \* what the earlobe model returns for the crop
    detected_loc,            \* the boxes Detector.detect returns
    model_anchor,            \* model_anchor_point's return value
    run,                     \* main.py: the locals of each invocation of main
    uploaded,                \* the images received by the upload server
    clients,                 \* fast_api.py: the list of connected websockets
    sockets,                 \* the state of each websocket connection
    inbox,                   \* the messages each websocket client received
    request                  \* the locals and the answer of GenJewelryReq

vars == <<pc, jewel_nobg_image_array, start_pixel, stack, visited_pixels,
          contour_pixels, filled_mask, masked_image, files, result,
          ear_box, min_size, crop_area, results, detected_loc, model_anchor,
          run, uploaded, clients, sockets, inbox, request>>

\* the state of the ear-side placement code (compute_points.py, main.py)
cropVars == <<ear_box, min_size, crop_area>>
earlobeVars == <<results, detected_loc, model_anchor>>
apiVars == <<clients, sockets, inbox, request>>
pipelineVars == <<run, uploaded, apiVars>>
placementVars == <<cropVars, earlobeVars, pipelineVars>>

\* Python's None, for values that are otherwise tuples
None == <<>>

\* the earlobe detector has not run
NoEarlobe ==
    /\ results = <<>>
    /\ detected_loc = None
    /\ model_anchor = None

\* the web service of fast_api.py is not running
NoApi ==
    /\ clients = <<>>
    /\ sockets = <<>>
    /\ inbox = <<>>
    /\ request = None

\* main.py's main has not been called
NoPipeline ==
    /\ run = <<>>
    /\ uploaded = {}
    /\ NoApi

\* the ear-side placement code has not run
NoPlacement ==
    /\ ear_box = None
    /\ min_size = 0
    /\ crop_area = None
    /\ NoEarlobe
    /\ NoPipeline

(***************************************************************************)
(* Bounds of the model.                                                    *)
(***************************************************************************)
MaskRows == 3
MaskCols == 3
SplitRows == 2
SplitCols == 4
AnchorRows == 110
AnchorCols == 3
FloodRows == 2
FloodCols == 3

Pixels(rows, cols) == (0 .. rows - 1) \X (0 .. cols - 1)

(***************************************************************************)
(* get_contour (get_earring.py 68-102).                                    *)
(***************************************************************************)
Deltas == {-1, 0, 1}

\* is_edge with the bounds test of line 95 left out: a neighbour outside the
\* image counts as a pixel that is not in the cluster
is_edge_without_bounds(visited, rows, cols, x, y) ==
    \E dx \in Deltas : \E dy \in Deltas :
        /\ ~(dx = 0 /\ dy = 0)
        /\ <<x + dx, y + dy>> \notin visited

\* lines 90-97: some neighbour (dx, dy) # (0, 0) is inside the image and
\* not in the mask built from the visited pixels (lines 84-86).
is_edge(visited, rows, cols, x, y) ==
    \E dx \in Deltas : \E dy \in Deltas :
        /\ ~(dx = 0 /\ dy = 0)
        /\ LET nx == x + dx
               ny == y + dy
           IN  /\ 0 <= nx /\ nx < rows
               /\ 0 <= ny /\ ny < cols
               /\ <<nx, ny>> \notin visited

get_contour(visited, rows, cols) ==
    {p \in visited : is_edge(visited, rows, cols, p[1], p[2])}

(***************************************************************************)
(* fill_contour (get_earring.py 105-122).  binary_fill_holes (scipy) with   *)
(* its default structuring element: the complement of the mask is invaded  *)
(* from outside the array through 4-connected steps; whatever is not       *)
(* reached is set true.                                                    *)
(***************************************************************************)
Adjacent4(p, q) ==
    \/ (p[1] = q[1] /\ (p[2] - q[2] = 1 \/ q[2] - p[2] = 1))
    \/ (p[2] = q[2] /\ (p[1] - q[1] = 1 \/ q[1] - p[1] = 1))

OnArrayBorder(p, rows, cols) ==
    p[1] = 0 \/ p[1] = rows - 1 \/ p[2] = 0 \/ p[2] = cols - 1

RECURSIVE Invade(_, _)
Invade(reached, background) ==
    LET more == {p \in background \ reached : \E q \in reached : Adjacent4(p, q)}
    IN  IF more = {} THEN reached ELSE Invade(reached \cup more, background)

\* the dilation started with border value 0: nothing enters from outside
\* the array, so every background pixel counts as a hole
binary_fill_holes_closed_border(mask, rows, cols) ==
    LET background == Pixels(rows, cols) \ mask
    IN  Pixels(rows, cols) \ Invade({}, background)

binary_fill_holes(mask, rows, cols) ==
    LET background == Pixels(rows, cols) \ mask
        outside    == {p \in background : OnArrayBorder(p, rows, cols)}
    IN  Pixels(rows, cols) \ Invade(outside, background)

fill_contour(contour, rows, cols) == binary_fill_holes(contour, rows, cols)

(***************************************************************************)
(* Images.  The palette has a black pixel, a pixel whose first channel is  *)
(* nonzero but not above the growth threshold, and a bright pixel.         *)
(***************************************************************************)
Black  == <<0, 0, 0>>
Dim    == <<5, 5, 5>>
Bright == <<200, 200, 200>>
Palette == {Black, Dim, Bright}

Images(rows, cols) == [Pixels(rows, cols) -> Palette]

(***************************************************************************)
(* find_nonzero_pixel (get_earring.py 11-24): the pixels random.choice can *)
(* return; the empty set stands for the None result.                       *)
(***************************************************************************)
jewel_nonzero_indices(image) == {p \in DOMAIN image : image[p][1] > 0}

(***************************************************************************)
(* flood_fill (get_earring.py 27-65).                                      *)
(***************************************************************************)
GrowthThreshold == 10

\* lines 54-64: the neighbours appended to the stack, in the order of the
\* two nested loops over dx and dy
Offsets == << <<-1, -1>>, <<-1, 0>>, <<-1, 1>>, <<0, -1>>,
              <<0, 1>>, <<1, -1>>, <<1, 0>>, <<1, 1>> >>

Grows(image, rows, cols, n) ==
    /\ 0 <= n[1] /\ n[1] < rows
    /\ 0 <= n[2] /\ n[2] < cols
    /\ image[n][1] > GrowthThreshold

RECURSIVE Appended(_, _, _, _, _)
Appended(image, rows, cols, pixel, k) ==
    IF k > Len(Offsets) THEN <<>>
    ELSE LET n == <<pixel[1] + Offsets[k][1], pixel[2] + Offsets[k][2]>>
         IN  (IF Grows(image, rows, cols, n) THEN <<n>> ELSE <<>>)
                 \o Appended(image, rows, cols, pixel, k + 1)

\* the loop body without the test of lines 50-51: a pixel taken off the work
\* list is expanded whether or not it was visited
flood_step_revisit(image, rows, cols, visited, pixel) ==
    <<visited \cup {pixel}, Appended(image, rows, cols, pixel, 1)>>

\* lines 50-64, the body of the while loop for the pixel just taken off the
\* work list: <<visited_pixels afterwards, pixels appended to the list>>
flood_step(image, rows, cols, visited, pixel) ==
    IF pixel \in visited
    THEN <<visited, <<>> >>
    ELSE <<visited \cup {pixel}, Appended(image, rows, cols, pixel, 1)>>

\* lines 43-65 as the code runs them: stack.pop() takes the last element
RECURSIVE flood_loop(_, _, _, _, _)
flood_loop(image, rows, cols, visited, stk) ==
    IF stk = <<>> THEN visited
    ELSE LET after == flood_step(image, rows, cols, visited, stk[Len(stk)])
         IN  flood_loop(image, rows, cols, after[1],
                        SubSeq(stk, 1, Len(stk) - 1) \o after[2])

flood_fill(image, rows, cols, start) == flood_loop(image, rows, cols, {}, <<start>>)

(***************************************************************************)
(* extract_one_earring (get_earring.py 125-149).  The cutout is kept under *)
(* array indices: PIL's getpixel((x, y)) reads row y, column x, so the     *)
(* corner getpixel((0, 0)) is the array element <<0, 0>>.                  *)
(***************************************************************************)
Opaque == 255
Transparent == <<0, 0, 0, 0>>

\* line 138: the image times the mask; lines 139: RGB to RGBA adds alpha 255
masked_image_rgb(image, mask) ==
    [p \in DOMAIN image |->
        (IF p \in mask THEN image[p] ELSE <<0, 0, 0>>) \o <<Opaque>>]

\* lines 140-147
transparent_image(image, mask) ==
    LET rgba             == masked_image_rgb(image, mask)
        background_color == rgba[<<0, 0>>]
    IN  [p \in DOMAIN image |->
            IF rgba[p] # background_color THEN rgba[p] ELSE Transparent]

(***************************************************************************)
(* jewel_center (compute_points.py 47-74) on a saved cutout.  cv2.imread   *)
(* with IMREAD_UNCHANGED returns the channels as B, G, R, A.               *)
(***************************************************************************)
AlphaThreshold == 1
MaxVal == 255

imread(cutout) ==
    [p \in DOMAIN cutout |->
        <<cutout[p][3], cutout[p][2], cutout[p][1], cutout[p][4]>>]

\* lines 60-63: threshold(alpha, 1, 255, THRESH_BINARY)
jewel_binary_mask(bgra) ==
    [p \in DOMAIN bgra |-> IF bgra[p][4] > AlphaThreshold THEN MaxVal ELSE 0]

RECURSIVE SumOver(_, _, _)
SumOver(S, f, k) ==
    IF S = {} THEN 0
    ELSE LET p == CHOOSE q \in S : TRUE
         IN  f[p] * (IF k = 0 THEN 1 ELSE p[k]) + SumOver(S \ {p}, f, k)

\* line 64: the moments of the mask (pixels that are 0 add nothing); x is
\* the column, y the row
NonZero(mask) == {p \in DOMAIN mask : mask[p] # 0}
m00(mask) == SumOver(NonZero(mask), mask, 0)
m10(mask) == SumOver(NonZero(mask), mask, 2)
m01(mask) == SumOver(NonZero(mask), mask, 1)

\* jewel_center returning (0, 0) for an empty mask instead of None
jewel_center_zero_default(cutout) ==
    LET jewel_M == jewel_binary_mask(imread(cutout))
    IN  IF m00(jewel_M) # 0
        THEN <<m10(jewel_M) \div m00(jewel_M), m01(jewel_M) \div m00(jewel_M)>>
        ELSE <<0, 0>>

\* lines 58-74; None when the mask is empty.  int() of a quotient of
\* non-negative numbers rounds down.  The files read here were saved as RGBA,
\* so the test shape[2] == 4 of line 59 holds.
jewel_center(cutout) ==
    LET jewel_M == jewel_binary_mask(imread(cutout))
    IN  IF m00(jewel_M) # 0
        THEN <<m10(jewel_M) \div m00(jewel_M), m01(jewel_M) \div m00(jewel_M)>>
        ELSE None

(***************************************************************************)
(* jewel_anchor_point (compute_points.py 77-112).                          *)
(***************************************************************************)
AnchorDivisor == 11

Min(S) == CHOOSE n \in S : \A k \in S : n <= k
Max(S) == CHOOSE n \in S : \A k \in S : n >= k

\* line 105 with the divisor 10 in place of 11
target_y_tenth(highest_y, lowest_y) ==
    highest_y + (lowest_y - highest_y) \div 10

\* line 105
target_y(highest_y, lowest_y) ==
    highest_y + (lowest_y - highest_y) \div AnchorDivisor

\* lines 88-112; the test shape[2] == 4 of line 89 holds as in jewel_center
jewel_anchor_point(cutout) ==
    LET jewel_M  == jewel_binary_mask(imread(cutout))
        jewel_ys == {p[1] : p \in NonZero(jewel_M)}
    IN  IF m00(jewel_M) # 0
        THEN IF jewel_ys = {} THEN None
             ELSE <<m10(jewel_M) \div m00(jewel_M),
                    target_y(Min(jewel_ys), Max(jewel_ys))>>
        ELSE None

(***************************************************************************)
(* The files of the jewelry directory (src/constants.py is not part of the *)
(* sources; the two slots are two different paths).  os.rename follows     *)
(* POSIX: the source replaces the destination, and renaming a file to      *)
(* itself changes nothing.                                                 *)
(***************************************************************************)
JEWEL_LEFT_PATH  == "JEWEL_LEFT_PATH"
JEWEL_RIGHT_PATH == "JEWEL_RIGHT_PATH"
\* the content of a path at which there is no file: an image without pixels
NoFile == <<>>

rename(fs, src, dst) ==
    IF src = dst THEN fs
    ELSE [fs EXCEPT ![dst] = fs[src], ![src] = NoFile]

(***************************************************************************)
(* SpecContour: get_contour and fill_contour applied to every pixel set of *)
(* a MaskRows x MaskCols image.                                            *)
(***************************************************************************)
InitContour ==
    /\ pc = "cluster"
    /\ NoPlacement
    /\ visited_pixels \in SUBSET Pixels(MaskRows, MaskCols)
    /\ contour_pixels = {}
    /\ filled_mask = {}
    /\ jewel_nobg_image_array = None
    /\ start_pixel = None
    /\ stack = <<>>
    /\ masked_image = None
    /\ files = None
    /\ result = None

GetContour ==
    /\ pc = "cluster"
    /\ contour_pixels' = get_contour(visited_pixels, MaskRows, MaskCols)
    /\ pc' = "contour"
    /\ UNCHANGED placementVars
    /\ UNCHANGED <<jewel_nobg_image_array, start_pixel, stack, visited_pixels,
                   filled_mask, files, result,
                   masked_image>>

FillContour ==
    /\ pc = "contour"
    /\ filled_mask' = fill_contour(contour_pixels, MaskRows, MaskCols)
    /\ pc' = "filled"
    /\ UNCHANGED placementVars
    /\ UNCHANGED <<jewel_nobg_image_array, start_pixel, stack, visited_pixels,
                   contour_pixels, files, result,
                   masked_image>>

NextContour == GetContour \/ FillContour

SpecContour == InitContour /\ [][NextContour]_vars

(***************************************************************************)
(* Claims about get_contour and fill_contour.                              *)
(***************************************************************************)
Abs(n) == IF n < 0 THEN -n ELSE n

\* q is one of the 8 neighbours of p
Touches(p, q) ==
    /\ p # q
    /\ Abs(p[1] - q[1]) <= 1
    /\ Abs(p[2] - q[2]) <= 1

\* C5: the contour returned by get_contour is exactly the set of cluster
\* members that touch a pixel of the image outside the cluster; a neighbour
\* outside the image does not count, and the contour is a subset of the
\* cluster.
C5_ContourIsInnerBoundary ==
    pc \in {"contour", "filled"} =>
        /\ contour_pixels \subseteq visited_pixels
        /\ \A p \in visited_pixels :
              p \in contour_pixels <=>
                  \E q \in Pixels(MaskRows, MaskCols) \ visited_pixels : Touches(p, q)

\* a cluster that has both a contour pixel and a member on the image border
\* which is not a contour pixel although it has neighbours outside the image
C5_Witness ==
    /\ pc = "contour"
    /\ contour_pixels # {}
    /\ \E p \in visited_pixels \ contour_pixels : OnArrayBorder(p, MaskRows, MaskCols)

\* the solid rectangle with rows x1..x2 and columns y1..y2
Rectangle(x1, x2, y1, y2) == (x1 .. x2) \X (y1 .. y2)

IsRectangle(S, rows, cols) ==
    \E x1 \in 0 .. rows - 1, x2 \in 0 .. rows - 1,
       y1 \in 0 .. cols - 1, y2 \in 0 .. cols - 1 :
        x1 <= x2 /\ y1 <= y2 /\ S = Rectangle(x1, x2, y1, y2)

\* C6: filling the contour of a solid rectangle gives back the rectangle,
\* wherever the rectangle lies in the image.
C6_RectangleRoundTrip ==
    (pc = "filled" /\ IsRectangle(visited_pixels, MaskRows, MaskCols))
        => filled_mask = visited_pixels

(***************************************************************************)
(* SpecFlood: flood_fill run one loop iteration at a time on every image   *)
(* of FloodRows x FloodCols pixels, from every seed find_nonzero_pixel    *)
(* can pick, as main and extract_the_other call it.  The claims            *)
(* quantify over the order in which the work list is emptied, so here the  *)
(* work list is kept as the number of entries it holds for each pixel and  *)
(* an iteration may take any entry; the code's stack.pop(), which takes    *)
(* the entry appended last, is one of these choices.                       *)
(***************************************************************************)
EmptyList(rows, cols) == [p \in Pixels(rows, cols) |-> 0]

ListOf(rows, cols, start) == [p \in Pixels(rows, cols) |-> IF p = start THEN 1 ELSE 0]

Occurrences(s, p) == Cardinality({k \in 1 .. Len(s) : s[k] = p})

\* the work list wl after one entry for pixel is taken off and the entries
\* of the sequence pushed are appended
TakeAndAppend(wl, pixel, pushed) ==
    [p \in DOMAIN wl |->
        wl[p] - (IF p = pixel THEN 1 ELSE 0) + Occurrences(pushed, p)]

InitFlood ==
    /\ pc = "begin"
    /\ NoPlacement
    /\ jewel_nobg_image_array \in Images(FloodRows, FloodCols)
    /\ start_pixel = None
    /\ stack = EmptyList(FloodRows, FloodCols)
    /\ visited_pixels = {}
    /\ contour_pixels = {}
    /\ filled_mask = {}
    /\ masked_image = None
    /\ files = None
    /\ result = None

\* find_nonzero_pixel followed, when it found a seed, by the entry of
\* flood_fill (lines 43-46)
FindNonzeroPixel ==
    /\ pc = "begin"
    /\ IF jewel_nonzero_indices(jewel_nobg_image_array) = {}
       THEN /\ pc' = "noseed"
            /\ UNCHANGED <<start_pixel, stack>>
       ELSE \E p \in jewel_nonzero_indices(jewel_nobg_image_array) :
               /\ start_pixel' = p
               /\ stack' = ListOf(FloodRows, FloodCols, p)
               /\ pc' = "loop"
    /\ UNCHANGED placementVars
    /\ UNCHANGED <<jewel_nobg_image_array, visited_pixels, contour_pixels,
                   filled_mask, files, result,
                   masked_image>>

\* one iteration of the while loop (lines 48-64)
FloodIterate ==
    /\ pc = "loop"
    /\ \E pixel \in Pixels(FloodRows, FloodCols) :
          /\ stack[pixel] > 0
          /\ LET after == flood_step(jewel_nobg_image_array, FloodRows, FloodCols,
                                     visited_pixels, pixel)
             IN  /\ visited_pixels' = after[1]
                 /\ stack' = TakeAndAppend(stack, pixel, after[2])
    /\ UNCHANGED placementVars
    /\ UNCHANGED <<pc, jewel_nobg_image_array, start_pixel, contour_pixels,
                   filled_mask, files, result,
                   masked_image>>

\* the loop ends and flood_fill returns visited_pixels (line 65)
FloodReturn ==
    /\ pc = "loop"
    /\ stack = EmptyList(FloodRows, FloodCols)
    /\ pc' = "returned"
    /\ UNCHANGED placementVars
    /\ UNCHANGED <<jewel_nobg_image_array, start_pixel, stack, visited_pixels,
                   contour_pixels, filled_mask, files, result,
                   masked_image>>

NextFlood == FindNonzeroPixel \/ FloodIterate \/ FloodReturn

SpecFlood == InitFlood /\ [][NextFlood]_vars

(***************************************************************************)
(* Claims about flood_fill.                                                *)
(***************************************************************************)
\* the pixels of S joined to a pixel of from by a chain of 8-neighbours
\* that stays inside S
RECURSIVE Reach(_, _)
Reach(S, from) ==
    LET more == {p \in S \ from : \E q \in from : Touches(p, q)}
    IN  IF more = {} THEN from ELSE Reach(S, from \cup more)

\* the maximal 8-connected subset of S that contains seed
Component(S, seed) == Reach(S, {seed} \cap S)

GrowthMembers(image) == {p \in DOMAIN image : image[p][1] > GrowthThreshold}

\* C1: flood_fill returns exactly the maximal 8-connected set that contains
\* the seed and whose pixels all have a first channel above 10, whatever
\* order the work list is emptied in.
C1_FloodFillIsComponent ==
    pc = "returned" =>
        /\ start_pixel \in visited_pixels
        /\ visited_pixels \subseteq GrowthMembers(jewel_nobg_image_array)
        /\ visited_pixels =
              Component(GrowthMembers(jewel_nobg_image_array), start_pixel)

\* the pixels with a nonzero first channel form one 8-connected blob
SingleBlob(image) ==
    LET nonzero == jewel_nonzero_indices(image)
    IN  /\ nonzero # {}
        /\ \A p \in nonzero : Component(nonzero, p) = nonzero

\* C3: on an image whose nonzero pixels form one isolated blob,
\* find_nonzero_pixel followed by flood_fill returns exactly the blob,
\* whichever seed was picked.
C3_SingleBlobAnySeed ==
    (pc = "returned" /\ SingleBlob(jewel_nobg_image_array))
        => visited_pixels = jewel_nonzero_indices(jewel_nobg_image_array)

(***************************************************************************)
(* SpecSplit: get_earring.main on every image of SplitRows x SplitCols     *)
(* pixels, from the array of line 203 on.                                  *)
(***************************************************************************)
InitSplit ==
    /\ pc = "main"
    /\ NoPlacement
    /\ jewel_nobg_image_array \in Images(SplitRows, SplitCols)
    /\ start_pixel = None
    /\ stack = <<>>
    /\ visited_pixels = {}
    /\ contour_pixels = {}
    /\ filled_mask = {}
    /\ masked_image = None
    /\ files = [path \in {JEWEL_LEFT_PATH, JEWEL_RIGHT_PATH} |-> NoFile]
    /\ result = "running"

\* a seed find_nonzero_pixel may return for the image, None when it has none
Seeds(image) ==
    IF jewel_nonzero_indices(image) = {} THEN {None}
    ELSE jewel_nonzero_indices(image)

\* lines 205-209 and 169-173: the cluster for the seed, empty without a seed
Cluster(image, rows, cols, seed) ==
    IF seed = None THEN {} ELSE flood_fill(image, rows, cols, seed)

\* line 205
MainFindSeed ==
    /\ pc = "main"
    /\ start_pixel' \in Seeds(jewel_nobg_image_array)
    /\ pc' = "seeded"
    /\ UNCHANGED placementVars
    /\ UNCHANGED <<jewel_nobg_image_array, stack, visited_pixels, contour_pixels,
                   filled_mask, masked_image, files, result>>

\* lines 206-213: the first earring is cut out and saved in the left slot
MainExtractOne ==
    /\ pc = "seeded"
    /\ LET visited == Cluster(jewel_nobg_image_array, SplitRows, SplitCols, start_pixel)
           contour == get_contour(visited, SplitRows, SplitCols)
           filled  == fill_contour(contour, SplitRows, SplitCols)
       IN  /\ visited_pixels' = visited
           /\ contour_pixels' = contour
           /\ filled_mask' = filled
           /\ files' = [files EXCEPT ![JEWEL_LEFT_PATH] =
                           transparent_image(jewel_nobg_image_array, filled)]
    /\ pc' = "first"
    /\ UNCHANGED placementVars
    /\ UNCHANGED <<jewel_nobg_image_array, start_pixel, stack, masked_image, result>>

\* extract_the_other, lines 165-169: the first mask is blanked out of the
\* image and a seed is looked for in what is left
OtherFindSeed ==
    /\ pc = "first"
    /\ LET masked == [p \in DOMAIN jewel_nobg_image_array |->
                         IF p \in filled_mask THEN <<0, 0, 0>>
                         ELSE jewel_nobg_image_array[p]]
       IN  /\ masked_image' = masked
           /\ start_pixel' \in Seeds(masked)
    /\ pc' = "other"
    /\ UNCHANGED placementVars
    /\ UNCHANGED <<jewel_nobg_image_array, stack, visited_pixels, contour_pixels,
                   filled_mask, files, result>>

\* extract_the_other, lines 170-177: the second earring is cut out of the
\* blanked image and saved in the right slot
OtherExtract ==
    /\ pc = "other"
    /\ LET visited == Cluster(masked_image, SplitRows, SplitCols, start_pixel)
           contour == get_contour(visited, SplitRows, SplitCols)
           filled  == fill_contour(contour, SplitRows, SplitCols)
       IN  /\ visited_pixels' = visited
           /\ contour_pixels' = contour
           /\ filled_mask' = filled
           /\ files' = [files EXCEPT ![JEWEL_RIGHT_PATH] =
                           transparent_image(masked_image, filled)]
    /\ pc' = "second"
    /\ UNCHANGED placementVars
    /\ UNCHANGED <<jewel_nobg_image_array, start_pixel, stack, masked_image, result>>

\* left_and_right (lines 188-193) and the return of main.  jewel_center
\* returns None for a cutout without foreground, and None[0] raises.
LeftAndRight ==
    /\ pc = "second"
    /\ LET c1 == jewel_center(files[JEWEL_LEFT_PATH])
           c2 == jewel_center(files[JEWEL_RIGHT_PATH])
       IN  IF c1 = None \/ c2 = None
           THEN /\ pc' = "raised"
                /\ result' = "TypeError"
                /\ UNCHANGED files
           ELSE LET left_earring_path ==
                        IF c1[1] < c2[1] THEN JEWEL_LEFT_PATH ELSE JEWEL_RIGHT_PATH
                    right_earring_path ==
                        IF c1[1] < c2[1] THEN JEWEL_RIGHT_PATH ELSE JEWEL_LEFT_PATH
                IN  /\ files' = rename(rename(files, left_earring_path, JEWEL_LEFT_PATH),
                                       right_earring_path, JEWEL_RIGHT_PATH)
                    /\ pc' = "done"
                    /\ result' = "earring prepared"
    /\ UNCHANGED placementVars
    /\ UNCHANGED <<jewel_nobg_image_array, start_pixel, stack, visited_pixels,
                   contour_pixels, filled_mask, masked_image>>

NextSplit ==
    MainFindSeed \/ MainExtractOne \/ OtherFindSeed \/ OtherExtract \/ LeftAndRight

SpecSplit == InitSplit /\ [][NextSplit]_vars

(***************************************************************************)
(* Claims about get_earring.main.                                          *)
(***************************************************************************)
\* the 8-connected components of the pixels with a nonzero first channel
Blobs(image) ==
    LET nonzero == jewel_nonzero_indices(image)
    IN  {Component(nonzero, p) : p \in nonzero}

ColumnsOf(S) == {p[2] : p \in S}

\* exactly two blobs, one entirely to the left of the other with at least
\* one black column between them; every nonzero pixel is above the growth
\* threshold, so that both tests of the code agree on what is foreground
TwoSeparatedBlobs(image) ==
    /\ jewel_nonzero_indices(image) = GrowthMembers(image)
    /\ Cardinality(Blobs(image)) = 2
    /\ \E A \in Blobs(image), B \in Blobs(image) :
          \A a \in ColumnsOf(A), b \in ColumnsOf(B) : a + 1 < b

\* the positions of a cutout that are not fully transparent
OpaquePixels(cutout) == {p \in DOMAIN cutout : cutout[p][4] # 0}

\* C2: when main finishes on an image with two earrings whose cutouts have
\* different centroid x, the left slot holds the cutout with the smaller
\* centroid x and the right slot the other one, whichever was extracted
\* first.
C2_SlotsOrderedByCentroid ==
    [][(/\ pc = "second"
        /\ pc' = "done"
        /\ TwoSeparatedBlobs(jewel_nobg_image_array)
        /\ jewel_center(files[JEWEL_LEFT_PATH])[1]
              # jewel_center(files[JEWEL_RIGHT_PATH])[1])
       => LET first  == files[JEWEL_LEFT_PATH]
              second == files[JEWEL_RIGHT_PATH]
              firstIsLeft == jewel_center(first)[1] < jewel_center(second)[1]
          IN  /\ files'[JEWEL_LEFT_PATH] = (IF firstIsLeft THEN first ELSE second)
              /\ files'[JEWEL_RIGHT_PATH] = (IF firstIsLeft THEN second ELSE first)
      ]_vars

\* C4: on an image without any nonzero pixel main does no flood fill, both
\* cutouts are empty, and main ends without raising.
C4_NoJewelryDoesNotRaise ==
    jewel_nonzero_indices(jewel_nobg_image_array) = {} =>
        /\ pc # "raised"
        /\ pc \in {"first", "other", "second", "done"} =>
              /\ visited_pixels = {}
              /\ \A path \in DOMAIN files :
                    files[path] # NoFile => OpaquePixels(files[path]) = {}

\* C7: on an image with exactly two well-separated blobs the two cutouts
\* are non-empty, share no opaque position, and together cover both blobs,
\* for every choice of the two seeds.
C7_TwoDisjointCoveringCutouts ==
    (pc = "second" /\ TwoSeparatedBlobs(jewel_nobg_image_array)) =>
        LET one   == OpaquePixels(files[JEWEL_LEFT_PATH])
            other == OpaquePixels(files[JEWEL_RIGHT_PATH])
        IN  /\ one # {}
            /\ other # {}
            /\ one \cap other = {}
            /\ jewel_nonzero_indices(jewel_nobg_image_array) \subseteq one \cup other

\* the claim about extract_one_earring(image, mask) having produced cutout
CutoutFollowsMask(image, mask, cutout) ==
    LET corner == IF <<0, 0>> \in mask THEN image[<<0, 0>>] ELSE <<0, 0, 0>>
    IN  \A p \in DOMAIN image :
           cutout[p] = IF p \in mask /\ image[p] # corner
                       THEN image[p] \o <<Opaque>>
                       ELSE Transparent

\* C8: in a cutout built by extract_one_earring every pixel outside the
\* mask is fully transparent, and every pixel inside the mask keeps its RGB
\* and is opaque unless its colour equals the colour of pixel (0,0) after
\* masking, in which case it is fully transparent.
C8_CutoutFollowsMask ==
    /\ pc = "first" =>
          CutoutFollowsMask(jewel_nobg_image_array, filled_mask, files[JEWEL_LEFT_PATH])
    /\ pc = "second" =>
          CutoutFollowsMask(masked_image, filled_mask, files[JEWEL_RIGHT_PATH])

(***************************************************************************)
(* SpecAnchor: jewel_center and jewel_anchor_point on the cutouts of       *)
(* AnchorRows x AnchorCols pixels in which at most two pixels are not      *)
(* fully transparent.  Such a cutout is kept as the function from these    *)
(* pixels to their RGBA value; the pixels outside its domain are fully     *)
(* transparent and add nothing to the mask, the moments or the rows.       *)
(* A pixel that is not fully transparent has alpha 1 (not above the        *)
(* threshold of lines 62 and 92), 2 or 255.                                *)
(***************************************************************************)
Alphas == {1, 2, Opaque}

AtMostTwo(S) == {{}} \cup {{p, q} : p \in S, q \in S}

InitAnchor ==
    /\ pc = "cutout"
    /\ NoPlacement
    /\ \E lit \in AtMostTwo(Pixels(AnchorRows, AnchorCols)) :
          \E alpha \in [lit -> Alphas] :
             files = [path \in {JEWEL_LEFT_PATH} |->
                         [p \in lit |-> Bright \o <<alpha[p]>>]]
    /\ jewel_nobg_image_array = None
    /\ start_pixel = None
    /\ stack = <<>>
    /\ visited_pixels = {}
    /\ contour_pixels = {}
    /\ filled_mask = {}
    /\ masked_image = None
    /\ result = None

JewelCenter ==
    /\ pc = "cutout"
    /\ result' = jewel_center(files[JEWEL_LEFT_PATH])
    /\ pc' = "centered"
    /\ UNCHANGED placementVars
    /\ UNCHANGED <<jewel_nobg_image_array, start_pixel, stack, visited_pixels,
                   contour_pixels, filled_mask, masked_image, files>>

JewelAnchorPoint ==
    /\ pc = "cutout"
    /\ result' = jewel_anchor_point(files[JEWEL_LEFT_PATH])
    /\ pc' = "anchored"
    /\ UNCHANGED placementVars
    /\ UNCHANGED <<jewel_nobg_image_array, start_pixel, stack, visited_pixels,
                   contour_pixels, filled_mask, masked_image, files>>

NextAnchor == JewelCenter \/ JewelAnchorPoint

SpecAnchor == InitAnchor /\ [][NextAnchor]_vars

(***************************************************************************)
(* Claims about jewel_center and jewel_anchor_point.                       *)
(***************************************************************************)
\* the pixels of a cutout whose alpha is at least least
AlphaAtLeast(cutout, least) == {p \in DOMAIN cutout : cutout[p][4] >= least}

RowsOf(S) == {p[1] : p \in S}

RECURSIVE ColumnSum(_)
ColumnSum(S) ==
    IF S = {} THEN 0
    ELSE LET p == CHOOSE q \in S : TRUE IN p[2] + ColumnSum(S \ {p})

\* anchor is the point the claim describes for the foreground pixels fg:
\* y is the top row plus an eleventh (rounded down) of the row span, so it
\* lies between the top and the bottom row and is 9 for rows 0..109; x is
\* the mean column rounded down
AnchorOf(fg, anchor) ==
    LET highest_y == Min(RowsOf(fg))
        lowest_y  == Max(RowsOf(fg))
        x == anchor[1]
        y == anchor[2]
    IN  /\ anchor # None
        /\ highest_y <= y /\ y <= lowest_y
        /\ 11 * (y - highest_y) <= lowest_y - highest_y
        /\ lowest_y - highest_y < 11 * (y - highest_y) + 11
        /\ (highest_y = 0 /\ lowest_y = 109) => y = 9
        /\ Cardinality(fg) * x <= ColumnSum(fg)
        /\ ColumnSum(fg) < Cardinality(fg) * (x + 1)

\* C9 as stated: for every cutout with a pixel of nonzero alpha,
\* jewel_anchor_point returns the anchor of the nonzero-alpha pixels.
C9_AnchorOfNonzeroAlpha ==
    (pc = "anchored" /\ AlphaAtLeast(files[JEWEL_LEFT_PATH], 1) # {})
        => AnchorOf(AlphaAtLeast(files[JEWEL_LEFT_PATH], 1), result)

\* C9 as amended: for every cutout with a pixel whose alpha is above 1,
\* jewel_anchor_point returns y = highest_y + (lowest_y - highest_y) // 11
\* over the rows of the pixels with alpha above 1 and x = the integer mean
\* column of these pixels.
C9_AnchorOfAlphaAboveOne ==
    (pc = "anchored" /\ AlphaAtLeast(files[JEWEL_LEFT_PATH], 2) # {})
        => AnchorOf(AlphaAtLeast(files[JEWEL_LEFT_PATH], 2), result)

\* the pixels with alpha above 1 span rows 0..109 and the anchor returned
\* is at row 9
C9_Witness ==
    /\ pc = "anchored"
    /\ RowsOf(AlphaAtLeast(files[JEWEL_LEFT_PATH], 2)) = {0, 109}
    /\ result[2] = 9

\* C10: for a cutout whose mask is empty (no alpha above the threshold,
\* m00 = 0) jewel_center and jewel_anchor_point return None, not a point.
C10_EmptyMaskGivesNone ==
    (pc \in {"centered", "anchored"} /\ AlphaAtLeast(files[JEWEL_LEFT_PATH], 2) = {})
        => result = None

\* jewel_anchor_point has returned None for a cutout whose only visible
\* pixels are faint
C10_Witness ==
    /\ pc = "anchored"
    /\ AlphaAtLeast(files[JEWEL_LEFT_PATH], 1) # {}
    /\ AlphaAtLeast(files[JEWEL_LEFT_PATH], 2) = {}
    /\ result = None

(***************************************************************************)
(* adjust_crop_area (compute_points.py): the detected ear box is widened   *)
(* or narrowed to a min_size x min_size crop around the same centre.  //   *)
(* is Python's floor division; extra is positive where it is divided.      *)
(***************************************************************************)
DefaultMinSize == 224

\* adjust with the odd unit of extra dropped instead of given to the end
adjust_even_split(start, end, size, least) ==
    IF size < least
    THEN LET extra == least - size
         IN  <<start - (extra \div 2), end + (extra \div 2)>>
    ELSE IF size > least
    THEN LET extra == size - least
         IN  <<start + (extra \div 2), end - (extra \div 2)>>
    ELSE <<start, end>>

adjust(start, end, size, least) ==
    IF size < least
    THEN LET extra == least - size
         IN  <<start - (extra \div 2), end + (extra - (extra \div 2))>>
    ELSE IF size > least
    THEN LET extra == size - least
         IN  <<start + (extra \div 2), end - (extra - (extra \div 2))>>
    ELSE <<start, end>>

\* returns <<x, y, x_end, y_end>>
adjust_crop_area(x, y, w, h, least) ==
    LET xs == adjust(x, x + w, w, least)
        ys == adjust(y, y + h, h, least)
    IN  <<xs[1], ys[1], xs[2], ys[2]>>

(***************************************************************************)
(* SpecCrop: adjust_crop_area applied to every box up to MaxCropW x        *)
(* MaxCropH at two corners, with the default min_size and a small one      *)
(* that boxes of these sizes exceed.                                       *)
(***************************************************************************)
MaxCropW == 100
MaxCropH == 50
SmallMinSize == 7
CropOrigins == {0, 10}

NoSegmentation ==
    /\ jewel_nobg_image_array = None
    /\ start_pixel = None
    /\ stack = <<>>
    /\ visited_pixels = {}
    /\ contour_pixels = {}
    /\ filled_mask = {}
    /\ masked_image = None

segmentationVars == <<jewel_nobg_image_array, start_pixel, stack, visited_pixels,
                      contour_pixels, filled_mask, masked_image>>

InitCrop ==
    /\ pc = "box"
    /\ ear_box \in CropOrigins \X {10} \X (0 .. MaxCropW) \X (0 .. MaxCropH)
    /\ min_size \in {DefaultMinSize, SmallMinSize}
    /\ crop_area = None
    /\ NoEarlobe
    /\ NoPipeline
    /\ NoSegmentation
    /\ files = None
    /\ result = None

AdjustCropArea ==
    /\ pc = "box"
    /\ crop_area' = adjust_crop_area(ear_box[1], ear_box[2], ear_box[3], ear_box[4],
                                     min_size)
    /\ pc' = "cropped"
    /\ UNCHANGED <<segmentationVars, earlobeVars, pipelineVars, files, result,
                   ear_box, min_size>>

NextCrop == AdjustCropArea

SpecCrop == InitCrop /\ [][NextCrop]_vars

\* floor(n / 2), stated without division
IsHalfFloor(half, n) == 2 * half <= n /\ n < 2 * half + 2

\* on one axis: the crop is exactly least long; an interval shorter than least
\* has its start moved out by floor(extra/2) and its end by the rest, a longer
\* one has them moved in by the same amounts, an equal one is kept
AxisAdjusted(start, size, least, new_start, new_end) ==
    LET end   == start + size
        extra == Abs(least - size)
    IN  /\ new_end - new_start = least
        /\ size < least => /\ IsHalfFloor(start - new_start, extra)
                           /\ new_end - end = extra - (start - new_start)
        /\ size > least => /\ IsHalfFloor(new_start - start, extra)
                           /\ end - new_end = extra - (new_start - start)
        /\ size = least => new_start = start /\ new_end = end

\* C11: adjust_crop_area returns a crop whose width and height are exactly
\* min_size; on each axis the start moves by floor(extra/2) and the end by
\* extra - floor(extra/2), outward when the box is smaller than min_size and
\* inward when it is larger.
C11_CropIsMinSizeSquare ==
    pc = "cropped" =>
        /\ AxisAdjusted(ear_box[1], ear_box[3], min_size, crop_area[1], crop_area[3])
        /\ AxisAdjusted(ear_box[2], ear_box[4], min_size, crop_area[2], crop_area[4])

\* the box (10, 10, 100, 50) at min_size 224: padded 62/62 and 87/87
C11_Witness ==
    /\ pc = "cropped"
    /\ ear_box = <<10, 10, 100, 50>>
    /\ min_size = DefaultMinSize
    /\ crop_area = <<10 - 62, 10 - 87, 110 + 62, 60 + 87>>

(***************************************************************************)
(* SpecFloodFair: SpecFlood with the progress of a running Python loop:    *)
(* while a step of find_nonzero_pixel or flood_fill is possible, one is    *)
(* eventually taken.                                                       *)
(***************************************************************************)
SpecFloodFair == SpecFlood /\ WF_vars(NextFlood)

\* a step of the loop that appends entries to the work list
Expands == pc = "loop" /\ \E p \in DOMAIN stack : stack'[p] > stack[p]

\* the step takes one entry of a pixel not yet visited and adds that pixel
FirstVisit ==
    \E q \in DOMAIN stack :
        /\ q \notin visited_pixels
        /\ visited_pixels' = visited_pixels \cup {q}
        /\ stack'[q] = stack[q] - 1

\* C12: flood_fill terminates on every image and seed, and each pixel is added
\* to visited_pixels and expanded at most once however many times it was
\* pushed: visited_pixels never loses a pixel, it changes only by a first
\* visit, and entries are appended to the work list only in a first visit.
C12_FloodFillTerminates ==
    /\ <>(pc \in {"noseed", "returned"})
    /\ [][/\ visited_pixels \subseteq visited_pixels'
          /\ (Expands \/ visited_pixels' # visited_pixels) => FirstVisit]_vars

\* a pixel already visited is still on the work list twice
C12_Witness ==
    /\ pc = "loop"
    /\ \E p \in visited_pixels : stack[p] >= 2

\* C13: every cluster flood_fill returns from a seed of find_nonzero_pixel
\* has only members with first channel > 10, and each member of a cluster
\* of more than one pixel is joined to another member by an 8-connected
\* chain inside the cluster.
C13_ClusterInvariant ==
    pc = "returned" =>
        \A p \in visited_pixels :
            /\ jewel_nobg_image_array[p][1] > GrowthThreshold
            /\ Cardinality(visited_pixels) > 1 =>
                   Component(visited_pixels, p) \ {p} # {}

\* the pixels of a set on its first or last row or column
Perimeter(S) ==
    {p \in S : \/ p[1] \in {Min(RowsOf(S)), Max(RowsOf(S))}
               \/ p[2] \in {Min(ColumnsOf(S)), Max(ColumnsOf(S))}}

\* C14: for every solid rectangle, wherever it lies in the image and also
\* when it touches the image border, get_contour returns exactly the
\* rectangle's perimeter pixels.
C14_RectangleContourIsPerimeter ==
    (pc = "contour" /\ IsRectangle(visited_pixels, MaskRows, MaskCols))
        => contour_pixels = Perimeter(visited_pixels)

\* C15: when no seed is found, the cluster is empty, get_contour and
\* fill_contour run to completion on it, and the mask of fill_contour is
\* false at every pixel of the image (a mask is the set of its true pixels
\* among the image's rows x cols positions).
C15_NoSeedGivesEmptyMask ==
    /\ (pc = "seeded" /\ start_pixel = None) => ENABLED MainExtractOne
    /\ (pc = "other" /\ start_pixel = None) => ENABLED OtherExtract
    /\ (pc \in {"first", "second"} /\ start_pixel = None) =>
           /\ visited_pixels = {}
           /\ contour_pixels = {}
           /\ filled_mask = {}
           /\ filled_mask \subseteq Pixels(SplitRows, SplitCols)
           /\ result = "running"

\* an image with one earring: the first extraction found it, the second
\* search finds no seed and its contour and mask have been computed
C15_Witness ==
    /\ pc = "second"
    /\ start_pixel = None
    /\ jewel_nonzero_indices(jewel_nobg_image_array) # {}
    /\ filled_mask = {}

(***************************************************************************)
(* get_earring.main as a function of the image and of the two seeds that   *)
(* find_nonzero_pixel returns, composed of the same steps as SpecSplit:    *)
(* <<result, files at the end>>.                                           *)
(***************************************************************************)
\* lines 205-212 and 170-176: the mask of the earring around the seed
earring_mask(image, rows, cols, seed) ==
    fill_contour(get_contour(Cluster(image, rows, cols, seed), rows, cols), rows, cols)

\* lines 165-167: the image with the first mask blanked out
blanked_image(image, mask) ==
    [p \in DOMAIN image |-> IF p \in mask THEN <<0, 0, 0>> ELSE image[p]]

\* lines 188-193
left_and_right(fs) ==
    LET c1 == jewel_center(fs[JEWEL_LEFT_PATH])
        c2 == jewel_center(fs[JEWEL_RIGHT_PATH])
    IN  IF c1 = None \/ c2 = None
        THEN <<"TypeError", fs>>
        ELSE LET left_earring_path ==
                     IF c1[1] < c2[1] THEN JEWEL_LEFT_PATH ELSE JEWEL_RIGHT_PATH
                 right_earring_path ==
                     IF c1[1] < c2[1] THEN JEWEL_RIGHT_PATH ELSE JEWEL_LEFT_PATH
             IN  <<"earring prepared",
                   rename(rename(fs, left_earring_path, JEWEL_LEFT_PATH),
                          right_earring_path, JEWEL_RIGHT_PATH)>>

main_outcome(image, rows, cols, seed1, seed2) ==
    LET mask1  == earring_mask(image, rows, cols, seed1)
        masked == blanked_image(image, mask1)
        mask2  == earring_mask(masked, rows, cols, seed2)
    IN  left_and_right([path \in {JEWEL_LEFT_PATH, JEWEL_RIGHT_PATH} |->
                           IF path = JEWEL_LEFT_PATH
                           THEN transparent_image(image, mask1)
                           ELSE transparent_image(masked, mask2)])

\* every outcome main can have on the image, over the seeds it may draw
main_outcomes(image, rows, cols) ==
    {main_outcome(image, rows, cols, seed1, seed2) :
        <<seed1, seed2>> \in
            {ss \in (Seeds(image) \cup DOMAIN image) \X (DOMAIN image \cup {None}) :
                /\ ss[1] \in Seeds(image)
                /\ ss[2] \in Seeds(blanked_image(image,
                                    earring_mask(image, rows, cols, ss[1])))}}

\* an image or a cutout with its columns in the opposite order
Mirror(image, cols) ==
    IF image = NoFile THEN NoFile
    ELSE [p \in DOMAIN image |-> image[<<p[1], cols - 1 - p[2]>>]]

\* C16: on a two-blob image every run of main, whichever seeds it draws,
\* ends like this one, with the same contents in the left and the right
\* slot; and on the image with the blobs' x-positions swapped (the mirror
\* image) every run ends with the other blob in the left slot: its left
\* slot holds the mirror of this run's right slot, and conversely.
C16_LabellingDeterministic ==
    (pc \in {"done", "raised"} /\ TwoSeparatedBlobs(jewel_nobg_image_array)) =>
        /\ main_outcomes(jewel_nobg_image_array, SplitRows, SplitCols)
               = {<<result, files>>}
        /\ \A other \in main_outcomes(Mirror(jewel_nobg_image_array, SplitCols),
                                      SplitRows, SplitCols) :
               /\ other[2][JEWEL_LEFT_PATH]
                      = Mirror(files[JEWEL_RIGHT_PATH], SplitCols)
               /\ other[2][JEWEL_RIGHT_PATH]
                      = Mirror(files[JEWEL_LEFT_PATH], SplitCols)

(***************************************************************************)
(* Detector.detect (detector.py 47-74) and model_anchor_point              *)
(* (compute_points.py 149-182).  The earlobe model's answer is a list of   *)
(* results, one per image, each with its list of boxes; a box is           *)
(* <<x, y, w, h>> with x, y its centre, here in pixels of the image the    *)
(* model was given (xywhn times the image size).  int() cuts towards 0.    *)
(***************************************************************************)
\* int(n / 2)
IntHalf(n) == IF n >= 0 THEN n \div 2 ELSE -((-n) \div 2)

\* detector.py 39-45: centre and size to top-left corner and size
normalize_to_absolute(box) ==
    <<IntHalf(2 * box[1] - box[3]), IntHalf(2 * box[2] - box[4]), box[3], box[4]>>

\* detector.py 63-64: xywhn[0] of a result without boxes raises IndexError
detect_raises(res) == \E k \in 1 .. Len(res) : res[k] = <<>>

\* detector.py 57-74: the first box of every result
detect(res) == [k \in 1 .. Len(res) |-> normalize_to_absolute(res[k][1])]

\* lines 175-182 with a fallback to the corner of the crop in place of the
\* failure on an empty detection list
anchor_or_crop_corner(x, y, detected) ==
    IF Len(detected) = 0 THEN <<x, y>>
    ELSE <<x + IntHalf(2 * detected[1][1] + detected[1][3]),
           y + IntHalf(2 * detected[1][2] + detected[1][4])>>

\* lines 175-182: None stands for the failure of line 175 (of line 176 when
\* assertions are compiled out)
anchor_of_detection(x, y, detected) ==
    IF Len(detected) = 0 THEN None
    ELSE <<x + IntHalf(2 * detected[1][1] + detected[1][3]),
           y + IntHalf(2 * detected[1][2] + detected[1][4])>>

model_temp_path == "model_temp_path"

(***************************************************************************)
(* SpecEarlobe: model_anchor_point on a few ear boxes, for every answer    *)
(* of the earlobe model with up to MaxResults results of up to MaxBoxes    *)
(* boxes.  The temporary file's content is the crop rectangle.             *)
(***************************************************************************)
MaxResults == 2
MaxBoxes == 2
EarBoxes == {0, 10} \X {10} \X {100, 300} \X {50}
LobeBoxes == {<<50, 60, 21, 30>>, <<112, 112, 40, 40>>}

SeqsUpTo(S, n) == UNION {[1 .. k -> S] : k \in 0 .. n}

InitEarlobe ==
    /\ pc = "ear"
    /\ ear_box \in EarBoxes
    /\ min_size = DefaultMinSize
    /\ crop_area = None
    /\ results \in SeqsUpTo(SeqsUpTo(LobeBoxes, MaxBoxes), MaxResults)
    /\ detected_loc = None
    /\ model_anchor = None
    /\ NoPipeline
    /\ NoSegmentation
    /\ files = [path \in {model_temp_path} |-> NoFile]
    /\ result = "running"

\* lines 164-172: the crop is saved in a temporary file that outlives the
\* with block (delete=False)
CropAndSave ==
    /\ pc = "ear"
    /\ crop_area' = adjust_crop_area(ear_box[1], ear_box[2], ear_box[3], ear_box[4],
                                     min_size)
    /\ files' = [files EXCEPT ![model_temp_path] = crop_area']
    /\ pc' = "saved"
    /\ UNCHANGED <<segmentationVars, earlobeVars, pipelineVars, result,
                   ear_box, min_size>>

\* line 174
Detect ==
    /\ pc = "saved"
    /\ IF detect_raises(results)
       THEN /\ result' = "IndexError"
            /\ pc' = "raised"
            /\ UNCHANGED detected_loc
       ELSE /\ detected_loc' = detect(results)
            /\ pc' = "detected"
            /\ UNCHANGED result
    /\ UNCHANGED <<segmentationVars, cropVars, pipelineVars, results, model_anchor,
                   files>>

\* lines 175-182: on an empty list the assertion fails, or, with assertions
\* compiled out, detected_loc[0] raises IndexError; the temporary file is
\* removed on the other path only
AnchorOrRaise ==
    /\ pc = "detected"
    /\ LET anchor == anchor_of_detection(crop_area[1], crop_area[2], detected_loc)
       IN  IF anchor = None
           THEN /\ result' \in {"AssertionError", "IndexError"}
                /\ pc' = "raised"
                /\ UNCHANGED <<model_anchor, files>>
           ELSE /\ files' = [files EXCEPT ![model_temp_path] = NoFile]
                /\ model_anchor' = anchor
                /\ result' = "returned"
                /\ pc' = "returned"
    /\ UNCHANGED <<segmentationVars, cropVars, pipelineVars, results, detected_loc>>

NextEarlobe == CropAndSave \/ Detect \/ AnchorOrRaise

SpecEarlobe == InitEarlobe /\ [][NextEarlobe]_vars

\* the earlobe model found no box in any result
NoDetection == \A k \in 1 .. Len(results) : results[k] = <<>>

\* the centre of the first box of the first result, cut to an integer, in
\* the coordinates of the whole photo
CentreOfFirstBox ==
    LET box    == results[1][1]
        corner == <<IntHalf(2 * box[1] - box[3]), IntHalf(2 * box[2] - box[4])>>
    IN  <<crop_area[1] + IntHalf(2 * corner[1] + box[3]),
          crop_area[2] + IntHalf(2 * corner[2] + box[4])>>

\* C17: when the earlobe detector has no detection for the crop,
\* model_anchor_point does not return and yields no anchor: its run ends
\* raised; an anchor is only ever returned computed from a detection.
C17_NoDetectionRaises ==
    /\ NoDetection => (model_anchor = None /\ pc # "returned")
    /\ (NoDetection /\ pc = "detected") => ~ENABLED (AnchorOrRaise /\ pc' = "returned")
    /\ pc = "returned" =>
          /\ ~NoDetection
          /\ detected_loc # <<>>
          /\ model_anchor = CentreOfFirstBox

\* the model returned one result without boxes and the call has failed
C17_Witness ==
    /\ pc = "raised"
    /\ Len(results) = 1
    /\ NoDetection
    /\ model_anchor = None

(***************************************************************************)
(* main.py: main and put_on_by_ear, run by several invocations at once.    *)
(* Every path is a module constant imported from src.constants (main.py    *)
(* 15-27, get_earring.py), so all invocations of a process use the same    *)
(* six paths.  src/constants.py is not part of the sources; the model      *)
(* takes the files to lie in the directory their constant is named after,  *)
(* which main creates before writing them (lines 79-80).                   *)
(*                                                                         *)
(* A file's content is <<writer, kind, data>>: the invocation that wrote   *)
(* it, what it is, and for a cutout its pixels.  The image processing of   *)
(* the relighting, rotation, blur and resize steps is not modelled: a      *)
(* processed cutout is any of ProcessedCutouts.  main is called with       *)
(* test = False (fast_api.py 83-87 and the default), so prepare_earrings   *)
(* always runs.                                                            *)
(***************************************************************************)
MODEL_PATH       == "MODEL_PATH"
MODEL_SALT_PATH  == "MODEL_SALT_PATH"
JEWEL_PATH       == "JEWEL_PATH"
JEWEL_NO_BG_PATH == "JEWEL_NO_BG_PATH"

MODEL_DIR == {MODEL_PATH, MODEL_SALT_PATH}
JEWEL_DIR == {JEWEL_PATH, JEWEL_NO_BG_PATH, JEWEL_LEFT_PATH, JEWEL_RIGHT_PATH}

Invocations == {1, 2}

\* a cutout with one opaque pixel, one whose only pixel has alpha 1 (not
\* transparent for resize_ear_ring's alpha > 0, background for the anchor's
\* threshold), and one without any visible pixel
OpaqueDot == [p \in {<<4, 2>>} |-> Bright \o <<Opaque>>]
FaintDot  == [p \in {<<4, 2>>} |-> Bright \o <<1>>]
BlankCutout == [p \in {} |-> Transparent]
ProcessedCutouts == {OpaqueDot, FaintDot}

\* ear_ring_place, lines 33-39: the ears in the order of detection
EarDicts == {<<"left", "right">>}

\* main.py lines 48 and 94
earring_path(ear) == IF ear = "left" THEN JEWEL_LEFT_PATH ELSE JEWEL_RIGHT_PATH

\* util.py 61-80
delete_all_files(fs, directory) ==
    [path \in DOMAIN fs |-> IF path \in directory THEN NoFile ELSE fs[path]]

\* util.py line 73: os.listdir, the entries present when the cleanup starts
listdir(fs, directory) == {path \in directory : fs[path] # NoFile}

\* line 51 with an undefined anchor replaced by the cutout's corner
anchor_or_origin(cutout) ==
    IF jewel_anchor_point(cutout) = None THEN <<0, 0>> ELSE jewel_anchor_point(cutout)

\* main.py line 51: the value unpacked into jewel_anchor_x, jewel_anchor_y;
\* None cannot be unpacked
unpacked_anchor(cutout) == jewel_anchor_point(cutout)

UnpackNone == "TypeError: cannot unpack non-iterable NoneType object"

InitPipeline ==
    /\ pc = "pipeline"
    /\ run = [i \in Invocations |->
                 [pc |-> "start", ear_dict |-> <<>>, ear |-> 1, model_image |-> None,
                  jewel_anchor |-> None, error |-> "", links |-> <<>>,
                  listing |-> {}]]
    /\ uploaded = {}
    /\ NoApi
    /\ files = [path \in MODEL_DIR \cup JEWEL_DIR |-> NoFile]
    /\ result = None
    /\ ear_box = None
    /\ min_size = 0
    /\ crop_area = None
    /\ NoEarlobe
    /\ NoSegmentation

notPipelineVars == <<pc, result, segmentationVars, cropVars, earlobeVars, apiVars>>

\* invocation i moves on to the step named where
Goto(i, where) == run' = [run EXCEPT ![i].pc = where]

\* an exception leaves the try block of main for its finally clause
Raise(i, exception) ==
    run' = [run EXCEPT ![i].pc = "cleanup", ![i].error = exception]

\* util.py lines 75-80: the loop over the listed entries. An entry that is
\* gone by the time of the isfile test is skipped; one that another
\* invocation removes between the isfile test (line 78) and os.remove
\* (line 79) makes os.remove raise FileNotFoundError, which leaves the
\* finally clause of main at once, the entries before it in the listing
\* (in any order) already removed.
remove_listed(i, where) ==
    \/ /\ files' = delete_all_files(files, run[i].listing)
       /\ run' = [run EXCEPT ![i].pc = where, ![i].listing = {}]
    \/ \E path \in run[i].listing :
          \E removed \in SUBSET (run[i].listing \ {path}) :
            /\ files[path] = NoFile
            /\ files' = delete_all_files(files, removed)
            /\ run' = [run EXCEPT ![i].pc = "raised", ![i].listing = {},
                                  ![i].error = "FileNotFoundError"]

Current(i) == run[i].ear_dict[run[i].ear]

\* the steps of the finally clause, lines 121-122
CleanupSteps == {"cleanup", "remove_model", "cleanup_jewel", "remove_jewel"}

\* the steps of the try block, lines 84-118
TrySteps == {"start", "download_jewel", "ear_ring_place", "prepare", "process",
             "put_on", "jewel_anchor", "model_anchor", "paste", "save",
             "watermark", "upload", "upload_salt"}

\* a step fails for a reason outside the model (network, image library,
\* detector)
Fails(i) ==
    /\ run[i].pc \in TrySteps
    /\ Raise(i, "Exception")
    /\ UNCHANGED <<files, uploaded, notPipelineVars>>

\* line 84; download_file writes nothing on a bad status or format
DownloadModel(i) ==
    /\ run[i].pc = "start"
    /\ \/ files' = [files EXCEPT ![MODEL_PATH] = <<i, "model", <<>> >>]
       \/ UNCHANGED files
    /\ Goto(i, "download_jewel")
    /\ UNCHANGED <<uploaded, notPipelineVars>>

\* line 85
DownloadJewel(i) ==
    /\ run[i].pc = "download_jewel"
    /\ \/ files' = [files EXCEPT ![JEWEL_PATH] = <<i, "jewel", <<>> >>]
       \/ UNCHANGED files
    /\ Goto(i, "ear_ring_place")
    /\ UNCHANGED <<uploaded, notPipelineVars>>

\* line 87
EarRingPlace(i) ==
    /\ run[i].pc = "ear_ring_place"
    /\ IF files[MODEL_PATH] = NoFile
       THEN Raise(i, "FileNotFoundError")
       ELSE \/ \E d \in EarDicts :
                  run' = [run EXCEPT ![i].pc = "prepare", ![i].ear_dict = d]
            \/ Raise(i, "Exception: No ear detected in the image")
    /\ UNCHANGED <<files, uploaded, notPipelineVars>>

\* lines 90-91, get_earring.main: the background-removed image and the two
\* cutouts are written; left_and_right leaves both slots, or only the right
\* one, or raises on a cutout without foreground
PrepareEarrings(i) ==
    /\ run[i].pc = "prepare"
    /\ IF files[JEWEL_PATH] = NoFile
       THEN Raise(i, "FileNotFoundError") /\ UNCHANGED files
       ELSE \/ /\ files' = [files EXCEPT ![JEWEL_NO_BG_PATH] = <<i, "nobg", <<>> >>,
                                         ![JEWEL_LEFT_PATH] = <<i, "cutout", OpaqueDot>>,
                                         ![JEWEL_RIGHT_PATH] = <<i, "cutout", OpaqueDot>>]
               /\ run' = [run EXCEPT ![i].pc = "process", ![i].ear = 1]
            \/ /\ files' = [files EXCEPT ![JEWEL_NO_BG_PATH] = <<i, "nobg", <<>> >>,
                                         ![JEWEL_LEFT_PATH] = NoFile,
                                         ![JEWEL_RIGHT_PATH] = <<i, "cutout", OpaqueDot>>]
               /\ run' = [run EXCEPT ![i].pc = "process", ![i].ear = 1]
            \/ /\ files' = [files EXCEPT ![JEWEL_NO_BG_PATH] = <<i, "nobg", <<>> >>,
                                         ![JEWEL_LEFT_PATH] = <<i, "cutout", BlankCutout>>,
                                         ![JEWEL_RIGHT_PATH] = <<i, "cutout", BlankCutout>>]
               /\ Raise(i, "TypeError: 'NoneType' object is not subscriptable")
    /\ UNCHANGED <<uploaded, notPipelineVars>>

\* lines 93-106 for one ear: adjust_light, find_and_rotate_jewelry,
\* add_colored_blur and resize_ear_ring rewrite the ear's cutout in place
ProcessEar(i) ==
    /\ run[i].pc = "process"
    /\ LET path == earring_path(Current(i))
       IN  IF files[path] = NoFile \/ files[MODEL_PATH] = NoFile
           THEN Raise(i, "cv2.error") /\ UNCHANGED files
           ELSE /\ \E cutout \in ProcessedCutouts :
                      files' = [files EXCEPT ![path] = <<i, "cutout", cutout>>]
                /\ IF run[i].ear < Len(run[i].ear_dict)
                   THEN run' = [run EXCEPT ![i].ear = @ + 1]
                   ELSE Goto(i, "put_on")
    /\ UNCHANGED <<uploaded, notPipelineVars>>

\* put_on_by_ear, line 43
OpenModel(i) ==
    /\ run[i].pc = "put_on"
    /\ IF files[MODEL_PATH] = NoFile
       THEN Raise(i, "FileNotFoundError")
       ELSE run' = [run EXCEPT ![i].pc = "jewel_anchor", ![i].ear = 1,
                               ![i].model_image = <<files[MODEL_PATH], {}>>]
    /\ UNCHANGED <<files, uploaded, notPipelineVars>>

\* lines 48-51
JewelAnchor(i) ==
    /\ run[i].pc = "jewel_anchor"
    /\ LET path == earring_path(Current(i))
       IN  IF files[path] = NoFile
           THEN Raise(i, "AttributeError")
           ELSE IF unpacked_anchor(files[path][3]) = None
           THEN Raise(i, UnpackNone)
           ELSE run' = [run EXCEPT ![i].pc = "model_anchor",
                                   ![i].jewel_anchor = unpacked_anchor(files[path][3])]
    /\ UNCHANGED <<files, uploaded, notPipelineVars>>

\* line 54: model_anchor_point returns, or raises without a detection
ModelAnchor(i) ==
    /\ run[i].pc = "model_anchor"
    /\ IF files[MODEL_PATH] = NoFile
       THEN Raise(i, "FileNotFoundError")
       ELSE \/ Goto(i, "paste")
            \/ Raise(i, "AssertionError")
    /\ UNCHANGED <<files, uploaded, notPipelineVars>>

\* lines 57-64: the cutout is read again and pasted on the image in memory
Paste(i) ==
    /\ run[i].pc = "paste"
    /\ LET path == earring_path(Current(i))
       IN  IF files[path] = NoFile
           THEN Raise(i, "FileNotFoundError")
           ELSE run' = [run EXCEPT
                   ![i].model_image =
                       <<@[1], @[2] \cup {<<Current(i), files[path]>>}>>,
                   ![i].ear = IF @ < Len(run[i].ear_dict) THEN @ + 1 ELSE @,
                   ![i].pc = IF run[i].ear < Len(run[i].ear_dict)
                             THEN "jewel_anchor" ELSE "save"]
    /\ UNCHANGED <<files, uploaded, notPipelineVars>>

\* lines 67-70
Save(i) ==
    /\ run[i].pc = "save"
    /\ files' = [files EXCEPT ![MODEL_PATH] = <<i, "composite", run[i].model_image>>]
    /\ Goto(i, "watermark")
    /\ UNCHANGED <<uploaded, notPipelineVars>>

\* lines 110-116
AddWatermark(i) ==
    /\ run[i].pc = "watermark"
    /\ IF files[MODEL_PATH] = NoFile
       THEN Raise(i, "FileNotFoundError") /\ UNCHANGED files
       ELSE /\ files' = [files EXCEPT ![MODEL_SALT_PATH] =
                            <<i, "watermarked", files[MODEL_PATH]>>]
            /\ Goto(i, "upload")
    /\ UNCHANGED <<uploaded, notPipelineVars>>

\* util.py 21-31: the file is posted; the link is None on a bad status
upload_image(i, path, next) ==
    IF files[path] = NoFile
    THEN Raise(i, "FileNotFoundError") /\ UNCHANGED uploaded
    ELSE \/ /\ uploaded' = uploaded \cup {<<i, path, files[path]>>}
            /\ run' = [run EXCEPT ![i].pc = next, ![i].links = Append(@, "link")]
         \/ /\ UNCHANGED uploaded
            /\ run' = [run EXCEPT ![i].pc = next, ![i].links = Append(@, "None")]

\* line 117
UploadImage(i) ==
    /\ run[i].pc = "upload"
    /\ upload_image(i, MODEL_PATH, "upload_salt")
    /\ UNCHANGED <<files, notPipelineVars>>

\* line 118
UploadSalt(i) ==
    /\ run[i].pc = "upload_salt"
    /\ upload_image(i, MODEL_SALT_PATH, "cleanup")
    /\ UNCHANGED <<files, notPipelineVars>>

\* util.py lines 69-73 under main.py line 121: the finally clause starts
\* delete_all_files(MODEL_DIR), which first lists the directory
ListModelDir(i) ==
    /\ run[i].pc = "cleanup"
    /\ run' = [run EXCEPT ![i].pc = "remove_model", ![i].listing = listdir(files, MODEL_DIR)]
    /\ UNCHANGED <<files, uploaded, notPipelineVars>>

\* util.py lines 75-80 under main.py line 121
DeleteModelDir(i) ==
    /\ run[i].pc = "remove_model"
    /\ remove_listed(i, "cleanup_jewel")
    /\ UNCHANGED <<uploaded, notPipelineVars>>

\* util.py lines 69-73 under main.py line 122
ListJewelDir(i) ==
    /\ run[i].pc = "cleanup_jewel"
    /\ run' = [run EXCEPT ![i].pc = "remove_jewel", ![i].listing = listdir(files, JEWEL_DIR)]
    /\ UNCHANGED <<files, uploaded, notPipelineVars>>

\* util.py lines 75-80 under main.py lines 122-123: after the second cleanup
\* main returns the links or the exception goes on to the caller
DeleteJewelDir(i) ==
    /\ run[i].pc = "remove_jewel"
    /\ remove_listed(i, IF run[i].error = "" THEN "returned" ELSE "raised")
    /\ UNCHANGED <<uploaded, notPipelineVars>>

NextPipeline ==
    \E i \in Invocations :
        \/ Fails(i)
        \/ DownloadModel(i)
        \/ DownloadJewel(i)
        \/ EarRingPlace(i)
        \/ PrepareEarrings(i)
        \/ ProcessEar(i)
        \/ OpenModel(i)
        \/ JewelAnchor(i)
        \/ ModelAnchor(i)
        \/ Paste(i)
        \/ Save(i)
        \/ AddWatermark(i)
        \/ UploadImage(i)
        \/ UploadSalt(i)
        \/ ListModelDir(i)
        \/ DeleteModelDir(i)
        \/ ListJewelDir(i)
        \/ DeleteJewelDir(i)

SpecPipeline == InitPipeline /\ [][NextPipeline]_vars

\* invocation i takes the step of line 51 on a cutout without an anchor
ReadsUndefinedAnchor(i) ==
    /\ run[i].pc = "jewel_anchor"
    /\ run'[i] # run[i]
    /\ files[earring_path(Current(i))] # NoFile
    /\ jewel_anchor_point(files[earring_path(Current(i))][3]) = None

\* invocation i has written the composite that is at MODEL_PATH
SavedCompositeOf(i) ==
    /\ files[MODEL_PATH] # NoFile
    /\ files[MODEL_PATH][1] = i
    /\ files[MODEL_PATH][2] = "composite"

\* C18: when jewel_anchor_point finds no anchor for an ear's cutout, the
\* run does not go on as if the placement had succeeded: the step raises
\* and changes no image, a run that has raised only cleans up and ends
\* raised, and after the failed unpacking that ear's cutout is not pasted,
\* no composite is saved and nothing is uploaded - the request fails.
C18_UndefinedAnchorFailsRequest ==
    /\ [][\A i \in Invocations :
            ReadsUndefinedAnchor(i) =>
                /\ run'[i].pc = "cleanup"
                /\ run'[i].error # ""
                /\ run'[i].model_image = run[i].model_image
                /\ UNCHANGED <<files, uploaded>>]_vars
    /\ [](\A i \in Invocations :
            run[i].error # "" => run[i].pc \in CleanupSteps \cup {"raised"})
    /\ [](\A i \in Invocations :
            run[i].error = UnpackNone =>
                /\ \A pasted \in run[i].model_image[2] : pasted[1] # Current(i)
                /\ ~SavedCompositeOf(i)
                /\ \A upload \in uploaded : upload[1] # i
                /\ run[i].links = <<>>)

\* the first ear's cutout was pasted, the second ear's cutout had no anchor,
\* and main has raised
C18_Witness ==
    \E i \in Invocations :
        /\ run[i].pc = "raised"
        /\ run[i].error = UnpackNone
        /\ run[i].model_image[2] # {}

\* the invocation that takes the step
Stepper == CHOOSE i \in Invocations : run'[i] # run[i]

\* C19: two invocations of the pipeline running at once share no mutable
\* state: a step of one invocation never overwrites or deletes an image
\* written by the other one (the end-of-run cleanup included), and never
\* uploads or pastes one.
C19_InvocationsShareNoFiles ==
    [][/\ \A path \in DOMAIN files :
            (files[path] # NoFile /\ files'[path] # files[path])
                => files[path][1] = Stepper
       /\ \A upload \in uploaded' \ uploaded : upload[3][1] = upload[1]
       /\ \A i \in Invocations :
            run'[i].model_image # run[i].model_image =>
                /\ run'[i].model_image[1][1] = i
                /\ \A pasted \in run'[i].model_image[2] : pasted[2][1] = i]_vars

\* C20: for every cluster flood_fill returns, the mask
\* fill_contour(get_contour(cluster)) is true at every pixel of the
\* cluster, also when the cluster touches the image border or covers the
\* whole image.
C20_MaskContainsCluster ==
    (pc \in {"first", "second"} /\ start_pixel # None)
        => visited_pixels \subseteq filled_mask

(***************************************************************************)
(* fast_api.py: GenJewelryReq (72-111) and websocket_endpoint (114-130)    *)
(* on one event loop.  The handler is suspended at every await of          *)
(* send_json, where websocket clients may connect, lose their connection   *)
(* or be removed; "await main(...)" calls the synchronous pipeline and     *)
(* does not yield.  A for loop over the list clients keeps an index and    *)
(* tests it against the list's current length before each iteration.       *)
(* Sending on a connection the peer has closed raises an Exception.        *)
(***************************************************************************)
WebSockets == {"ws1", "ws2"}

\* what main returns: a link or None for each of the two uploads
Links == {"link", "None"} \X {"link", "None"}

\* list.remove: the first occurrence is taken out
remove(list, w) ==
    LET k == CHOOSE j \in 1 .. Len(list) :
                 list[j] = w /\ \A m \in 1 .. j - 1 : list[m] # w
    IN  SubSeq(list, 1, k - 1) \o SubSeq(list, k + 1, Len(list))

InitApi ==
    /\ pc = "api"
    /\ clients = <<>>
    /\ sockets = [w \in WebSockets |-> "idle"]
    /\ inbox = [w \in WebSockets |-> <<>>]
    /\ request = [pc |-> "received", links |-> None, error |-> "", k |-> 1,
                  response |-> None]
    /\ run = <<>>
    /\ uploaded = {}
    /\ files = None
    /\ result = None
    /\ ear_box = None
    /\ min_size = 0
    /\ crop_area = None
    /\ NoEarlobe
    /\ NoSegmentation

notApiVars == <<pc, result, files, run, uploaded, segmentationVars, cropVars,
                earlobeVars>>

\* lines 121-122
WsConnect(w) ==
    /\ sockets[w] = "idle"
    /\ sockets' = [sockets EXCEPT ![w] = "open"]
    /\ clients' = Append(clients, w)
    /\ UNCHANGED <<inbox, request, notApiVars>>

\* the peer goes away; the endpoint, waiting in receive_text (line 125),
\* has not run yet
WsPeerCloses(w) ==
    /\ sockets[w] = "open"
    /\ sockets' = [sockets EXCEPT ![w] = "closed"]
    /\ UNCHANGED <<clients, inbox, request, notApiVars>>

\* lines 127-129
WsDisconnect(w) ==
    /\ sockets[w] = "closed"
    /\ sockets' = [sockets EXCEPT ![w] = "removed"]
    /\ clients' = remove(clients, w)
    /\ UNCHANGED <<inbox, request, notApiVars>>

\* lines 83-87: the pipeline returns its links or raises
CallMain ==
    /\ request.pc = "received"
    /\ \/ \E links \in Links :
             request' = [request EXCEPT !.pc = "broadcast", !.links = links, !.k = 1]
       \/ request' = [request EXCEPT !.pc = "except", !.error = "pipeline", !.k = 1]
    /\ UNCHANGED <<clients, sockets, inbox, notApiVars>>

\* lines 91-92, one iteration; a failed send is caught at line 96
BroadcastLinks ==
    /\ request.pc = "broadcast"
    /\ request.k <= Len(clients)
    /\ LET w == clients[request.k]
       IN  IF sockets[w] = "open"
           THEN /\ inbox' = [inbox EXCEPT ![w] = Append(@, request.links)]
                /\ request' = [request EXCEPT !.k = @ + 1]
           ELSE /\ request' = [request EXCEPT !.pc = "except", !.error = "send",
                                              !.k = 1]
                /\ UNCHANGED inbox
    /\ UNCHANGED <<clients, sockets, notApiVars>>

\* line 94
ReturnLinks ==
    /\ request.pc = "broadcast"
    /\ request.k > Len(clients)
    /\ request' = [request EXCEPT !.pc = "responded",
                                  !.response = <<200, request.links>>]
    /\ UNCHANGED <<clients, sockets, inbox, notApiVars>>

\* lines 101-104, one iteration; a failed send here is caught by nothing and
\* leaves the handler
BroadcastError ==
    /\ request.pc = "except"
    /\ request.k <= Len(clients)
    /\ LET w == clients[request.k]
       IN  IF sockets[w] = "open"
           THEN /\ inbox' = [inbox EXCEPT ![w] = Append(@, <<"error", request.error>>)]
                /\ request' = [request EXCEPT !.k = @ + 1]
           ELSE /\ request' = [request EXCEPT !.pc = "escaped"]
                /\ UNCHANGED inbox
    /\ UNCHANGED <<clients, sockets, notApiVars>>

\* lines 106-109
ReturnError ==
    /\ request.pc = "except"
    /\ request.k > Len(clients)
    /\ request' = [request EXCEPT !.pc = "responded",
                                  !.response = <<500, <<"error", request.error>> >>]
    /\ UNCHANGED <<clients, sockets, inbox, notApiVars>>

NextApi ==
    \/ \E w \in WebSockets : WsConnect(w) \/ WsPeerCloses(w) \/ WsDisconnect(w)
    \/ CallMain
    \/ BroadcastLinks
    \/ ReturnLinks
    \/ BroadcastError
    \/ ReturnError

SpecApi == InitApi /\ [][NextApi]_vars

\* C21: whatever websocket clients do meanwhile, GenJewelryReq answers by
\* the pipeline's outcome: the JSON with the links when the pipeline
\* returned links, the status-500 JSON error when it raised, and no
\* exception leaves the handler.
C21_AnswerFollowsPipeline ==
    /\ request.pc # "escaped"
    /\ request.pc = "responded" =>
          IF request.links # None
          THEN request.response = <<200, request.links>>
          ELSE request.response = <<500, <<"error", "pipeline">> >>

(***************************************************************************)
(* main.py lines 120-123: the finally clause of main.                      *)
(***************************************************************************)
\* the run of invocation i has left main
Exited(i) == run[i].pc \in {"returned", "raised"}

\* C22: on every exit path of main (success, or an exception raised in the
\* try block) delete_all_files has run on the model directory and then on
\* the jewelry directory before main returns or propagates the exception:
\* main is left only from the end of the second cleanup, which is entered
\* only from the end of the first one, and no cleanup ends by raising.
C22_CleanupBeforeExit ==
    [][\A i \in Invocations :
          /\ (~Exited(i) /\ Exited(i)') =>
                /\ run[i].pc = "remove_jewel"
                /\ run'[i].error = run[i].error
                /\ files' = delete_all_files(files, run[i].listing)
          /\ (run[i].pc # "cleanup_jewel" /\ run'[i].pc = "cleanup_jewel") =>
                /\ run[i].pc = "remove_model"
                /\ files' = delete_all_files(files, run[i].listing)]_vars

(***************************************************************************)
(* compute_points.py lines 165-182: the temporary file of                  *)
(* model_anchor_point.                                                     *)
(***************************************************************************)
\* C23: the temporary cropped-image file that model_anchor_point creates is
\* removed before the function exits, on every path: once the function has
\* returned or raised, no file is left at model_temp_path.
C23_TempFileRemovedOnExit ==
    pc \in {"returned", "raised"} => files[model_temp_path] = NoFile

====
